---- MODULE Spec2Model ----
(***************************************************************************)
(* Model of worker/worker.go: the SQS poll loop (Service.Start), the       *)
(* batch dispatcher (run), the per-message worker (handleMessage) and the  *)
(* graceful shutdown (Service.Stop).                                       *)
(***************************************************************************)
EXTENDS Integers, Sequences, FiniteSets, TLC

\* Bounds of the model.
MaxBatch == 2        \* largest batch one receive returns (MaxNumberOfMessage, configurable)
MaxDeliveries == 3   \* deliveries (receipt handles) handed out over a run

VARIABLES
    cancelled,     \* s.AWSContext is done
    Running,       \* counter of s.Running (sync.WaitGroup)
    startPc,       \* position of Service.Start
    stopPc,        \* position of Service.Stop
    messages,      \* resp.Messages of the batch being dispatched (receipt handles)
    i,             \* loop index of run's "for i := range messages"
    wg,            \* counter of run's local sync.WaitGroup
    batchNo,       \* number of batches dispatched so far
    delivered,     \* number of receipt handles handed out so far
    workers,       \* the goroutines launched by run, in launch order
    handlerCalls,  \* receipt handle -> number of h.HandleMessage invocations
    deleteCalls,   \* receipt handle -> number of DeleteMessage calls issued
    log,           \* what was written to Logger
    surfaced,      \* errors that left run towards its caller
    stopAt,        \* what Stop() found when it signalled: Start's position, the active
                   \* workers, those still in their handler, the batches dispatched
    err            \* the err of Start's latest ReceiveMessageWithContext

vars == <<cancelled, Running, startPc, stopPc, messages, i, wg, batchNo,
          delivered, workers, handlerCalls, deleteCalls, log, surfaced, stopAt,
          err>>

Handles == 1..MaxDeliveries

\* Values of the error returned by h.HandleMessage.
HandlerErrors == {"nil", "invalid", "other"}

Init ==
    /\ cancelled = FALSE
    /\ Running = 0
    /\ startPc = "idle"
    /\ stopPc = "idle"
    /\ messages = <<>>
    /\ i = 1
    /\ wg = 0
    /\ batchNo = 0
    /\ delivered = 0
    /\ workers = <<>>
    /\ handlerCalls = [h \in Handles |-> 0]
    /\ deleteCalls = [h \in Handles |-> 0]
    /\ log = {}
    /\ surfaced = {}
    /\ stopAt = [pc |-> "none", active |-> {}, handling |-> {}, batches |-> 0]
    /\ err = "none"

\* A goroutine is executing handleMessage.
Active(w) == workers[w].pc \in {"handling", "returned", "deleting"}

ActiveWorkers == {w \in DOMAIN workers : Active(w)}

----------------------------------------------------------------------------
\* Service.Stop

\* Stop() that does not wait for the wait group.
RunningWait_NoWait(c) == TRUE

\* s.Running.Wait() returns.
RunningWait(c) == c = 0

StopCall ==
    /\ stopPc = "idle"
    /\ log' = log \cup {<<"stop", 0>>}
    /\ cancelled' = TRUE
    /\ stopPc' = "wait"
    /\ stopAt' = [pc |-> startPc, active |-> ActiveWorkers,
                   handling |-> {w \in DOMAIN workers : workers[w].pc = "handling"},
                   batches |-> batchNo]
    /\ UNCHANGED <<Running, startPc, messages, i, wg, batchNo, delivered,
                   workers, handlerCalls, deleteCalls, surfaced, err>>

StopReturn ==
    /\ stopPc = "wait"
    /\ RunningWait(Running)
    /\ stopPc' = "done"
    /\ UNCHANGED <<cancelled, Running, startPc, messages, i, wg, batchNo,
                   delivered, workers, handlerCalls, deleteCalls, log, surfaced, stopAt, err>>

----------------------------------------------------------------------------
\* Service.Start

\* A loop head that never sees the cancellation.
SelectDone_Never(c) == FALSE

\* The select at the loop head takes the Done case.
SelectDone(c) == c

\* A receive error that goes straight back into the receive.
AfterReceiveError_Retry == "receive"

\* A receive error that ends Start ("return" for "continue").
AfterReceiveError_Return == "done"

\* What Start does with a receive error: "continue".
AfterReceiveError == "top"

\* s.Running.Done() called on every pass of the loop, or never.
DeferredDone_Eager(pc, c) == c - 1
DeferredDone_Missing(pc, c) == c

\* Start that does not register itself with s.Running.
RunningAdd_Missing(c) == c

\* s.Running.Add(1) on entry of Start.
RunningAdd(c) == c + 1

\* "defer s.Running.Done()": runs when Start reaches its return.
DeferredDone(pc, c) == IF pc = "done" THEN c - 1 ELSE c

StartCall ==
    /\ startPc = "idle"
    /\ Running' = RunningAdd(Running)
    /\ startPc' = "top"
    /\ UNCHANGED <<cancelled, stopPc, messages, i, wg, batchNo, delivered,
                   workers, handlerCalls, deleteCalls, log, surfaced, stopAt, err>>

LoopStopped ==
    /\ startPc = "top"
    /\ SelectDone(cancelled)
    /\ log' = log \cup {<<"stopped", 0>>}
    /\ Running' = DeferredDone("done", Running)
    /\ startPc' = "done"
    /\ UNCHANGED <<cancelled, stopPc, messages, i, wg, batchNo, delivered,
                   workers, handlerCalls, deleteCalls, surfaced, stopAt, err>>

ReceiveIssue ==
    /\ startPc = "top"
    /\ ~SelectDone(cancelled)
    /\ startPc' = "receive"
    /\ UNCHANGED <<cancelled, Running, stopPc, messages, i, wg, batchNo,
                   delivered, workers, handlerCalls, deleteCalls, log, surfaced, stopAt, err>>

ReceiveError ==
    /\ startPc = "receive"
    /\ log' = log \cup {<<"poll", 0>>}
    /\ startPc' = AfterReceiveError
    /\ Running' = DeferredDone(AfterReceiveError, Running)
    /\ err' = "error"
    /\ UNCHANGED <<cancelled, stopPc, messages, i, wg, batchNo, delivered,
                   workers, handlerCalls, deleteCalls, surfaced, stopAt>>

ReceiveEmpty ==
    /\ startPc = "receive"
    /\ startPc' = "top"
    /\ err' = "nil"
    /\ UNCHANGED <<cancelled, Running, stopPc, messages, i, wg, batchNo,
                   delivered, workers, handlerCalls, deleteCalls, log, surfaced, stopAt>>

\* An off-by-one in the number of goroutines run waits for.
WgAdd_OneShort(c, numMessages) == c + numMessages - 1

\* wg.Add(numMessages)
WgAdd(c, numMessages) == c + numMessages

ReceiveBatch ==
    /\ startPc = "receive"
    /\ \E k \in 1..MaxBatch :
        /\ delivered + k <= MaxDeliveries
        /\ messages' = [j \in 1..k |-> delivered + j]
        /\ delivered' = delivered + k
        /\ wg' = WgAdd(wg, k)
    /\ batchNo' = batchNo + 1
    /\ i' = 1
    /\ startPc' = "spawn"
    /\ err' = "nil"
    /\ UNCHANGED <<cancelled, Running, stopPc, workers, handlerCalls,
                   deleteCalls, log, surfaced, stopAt>>

----------------------------------------------------------------------------
\* run

\* Goroutines that all read the loop's last message.
GoroutineArg_LastMessage(msgs, idx) == msgs[Len(msgs)]

\* The message handed to the goroutine launched at index idx.
GoroutineArg(msgs, idx) == msgs[idx]

Spawn ==
    /\ startPc = "spawn"
    /\ i <= Len(messages)
    /\ LET m == GoroutineArg(messages, i) IN
        /\ workers' = Append(workers,
                        [pc |-> "handling", m |-> m, err |-> "none",
                         del |-> "none", ans |-> "none", batch |-> batchNo])
        /\ handlerCalls' = [handlerCalls EXCEPT ![m] = @ + 1]
    /\ i' = i + 1
    /\ startPc' = IF i = Len(messages) THEN "wait" ELSE "spawn"
    /\ UNCHANGED <<cancelled, Running, stopPc, messages, wg, batchNo,
                   delivered, deleteCalls, log, surfaced, stopAt, err>>

\* run that does not wait for its goroutines.
BatchJoined_NoWait(c) == TRUE

\* run that returns while one goroutine is still running.
BatchJoined_Early(c) == c <= 1

\* wg.Wait() returns.
BatchJoined(c) == c = 0

RunJoin ==
    /\ startPc = "wait"
    /\ BatchJoined(wg)
    /\ startPc' = "top"
    /\ messages' = <<>>
    /\ UNCHANGED <<cancelled, Running, stopPc, i, wg, batchNo, delivered,
                   workers, handlerCalls, deleteCalls, log, surfaced, stopAt, err>>

\* A goroutine that drops the error of handleMessage.
GoroutineLog_Silent(l, kind, m) == l

\* A goroutine that hands its error on to the caller of run.
GoroutineSurfaced_Returned(s, kind, m) == s \cup {<<kind, m>>}

\* The goroutine's treatment of a non-nil error of handleMessage: it is
\* printed to Logger; run has no result.
GoroutineLog(l, kind, m) == l \cup {<<kind, m>>}
GoroutineSurfaced(s, kind, m) == s

----------------------------------------------------------------------------
\* handleMessage

HandlerReturn(w) ==
    /\ workers[w].pc = "handling"
    /\ \E e \in HandlerErrors :
        workers' = [workers EXCEPT ![w].pc = "returned", ![w].err = e]
    /\ UNCHANGED <<cancelled, Running, startPc, stopPc, messages, i, wg,
                   batchNo, delivered, handlerCalls, deleteCalls, log, surfaced, stopAt, err>>

\* err.(InvalidMessageError) succeeds.
IsInvalidMessage(e) == e = "invalid"

\* Classifications that treat one kind of result the wrong way.
ProceedsToDelete_OnlyNil(e) == e = "nil"
ProceedsToDelete_Always(e) == TRUE

\* handleMessage reaches the DeleteMessage call.
ProceedsToDelete(e) == IsInvalidMessage(e) \/ e = "nil"

Classify(w) ==
    /\ workers[w].pc = "returned"
    /\ LET e == workers[w].err
           m == workers[w].m
           l1 == IF IsInvalidMessage(e) THEN log \cup {<<"invalid", m>>} ELSE log
       IN IF ProceedsToDelete(e)
          THEN /\ workers' = [workers EXCEPT ![w].pc = "deleting"]
               /\ deleteCalls' = [deleteCalls EXCEPT ![m] = @ + 1]
               /\ log' = l1
               /\ UNCHANGED <<wg, surfaced>>
          ELSE /\ workers' = [workers EXCEPT ![w].pc = "done"]
               /\ log' = GoroutineLog(l1, "handler", m)
               /\ surfaced' = GoroutineSurfaced(surfaced, "handler", m)
               /\ wg' = wg - 1
               /\ UNCHANGED deleteCalls
    /\ UNCHANGED <<cancelled, Running, startPc, stopPc, messages, i, batchNo,
                   delivered, handlerCalls, stopAt, err>>

\* A DeleteMessage bound to s.AWSContext: it fails once the context is done.
DeleteErr_WithContext(ok, c) == ~ok \/ c

\* The err of s.JobSQS.DeleteMessage(params): the call takes no context, so
\* it is the transport's answer whatever the state of s.AWSContext.
DeleteErr(ok, c) == ~ok

\* A failed DeleteMessage that is tried again.
AfterDeleteError_Retry == "returned"

\* Position of the worker after a failed DeleteMessage: handleMessage returns.
AfterDeleteError == "done"

DeleteReturn(w) ==
    /\ workers[w].pc = "deleting"
    /\ LET m == workers[w].m IN
       \E ok \in BOOLEAN :
          IF ~DeleteErr(ok, cancelled)
          THEN /\ workers' = [workers EXCEPT ![w].pc = "done", ![w].del = "ok",
                                             ![w].ans = "ok"]
               /\ wg' = wg - 1
               /\ UNCHANGED <<log, surfaced>>
          ELSE /\ workers' = [workers EXCEPT ![w].pc = AfterDeleteError,
                                             ![w].del = "fail",
                                             ![w].ans = IF ok THEN "ok" ELSE "fail"]
               /\ IF AfterDeleteError = "done"
                  THEN /\ log' = GoroutineLog(log, "delete", m)
                       /\ surfaced' = GoroutineSurfaced(surfaced, "delete", m)
                       /\ wg' = wg - 1
                  ELSE UNCHANGED <<log, surfaced, wg>>
    /\ UNCHANGED <<cancelled, Running, startPc, stopPc, messages, i, batchNo,
                   delivered, handlerCalls, deleteCalls, stopAt, err>>

----------------------------------------------------------------------------
Next ==
    \/ StopCall
    \/ StopReturn
    \/ StartCall
    \/ LoopStopped
    \/ ReceiveIssue
    \/ ReceiveError
    \/ ReceiveEmpty
    \/ ReceiveBatch
    \/ Spawn
    \/ RunJoin
    \/ \E w \in DOMAIN workers : HandlerReturn(w)
    \/ \E w \in DOMAIN workers : Classify(w)
    \/ \E w \in DOMAIN workers : DeleteReturn(w)

Spec == Init /\ [][Next]_vars

\* The steps of the poll loop, of the goroutines and of Stop's wait.
StartStep ==
    \/ LoopStopped
    \/ ReceiveIssue
    \/ Spawn
    \/ RunJoin

ReceiveReturn ==
    \/ ReceiveError
    \/ ReceiveEmpty
    \/ ReceiveBatch

WorkerStep ==
    \E w \in DOMAIN workers : HandlerReturn(w) \/ Classify(w) \/ DeleteReturn(w)

\* Every call that was started returns, and the Go scheduler runs every
\* runnable goroutine.
FairSpec ==
    /\ Spec
    /\ WF_vars(StartStep)
    /\ WF_vars(ReceiveReturn)
    /\ WF_vars(WorkerStep)
    /\ WF_vars(StopReturn)

----------------------------------------------------------------------------
\* Properties

WorkersOfBatch(b) == {w \in DOMAIN workers : workers[w].batch = b}
Finished(w) == workers[w].pc = "done"
SurfacedFor(m) == {e \in surfaced : e[2] = m}
BatchInFlight == startPc \in {"spawn", "wait"} \/ ActiveWorkers # {}

\* C1: a worker whose handler returned nil has issued exactly one
\* DeleteMessage with its message's receipt handle once it has finished, and
\* nothing about that message has left run towards its caller.
C1_SuccessDeletedOnce ==
    \A w \in DOMAIN workers :
        (workers[w].err = "nil" /\ workers[w].pc \in {"deleting", "done"}) =>
            /\ deleteCalls[workers[w].m] = 1
            /\ SurfacedFor(workers[w].m) = {}

C1_Witness ==
    \E w \in DOMAIN workers :
        /\ Finished(w) /\ workers[w].err = "nil" /\ workers[w].del = "fail"
        /\ deleteCalls[workers[w].m] = 1
        /\ startPc = "top"

\* C2: a worker whose handler returned an InvalidMessageError has issued
\* exactly one DeleteMessage, the failure is in the log, and nothing about it
\* has left run towards its caller.
C2_PermanentDeletedLogged ==
    \A w \in DOMAIN workers :
        (workers[w].err = "invalid" /\ Finished(w)) =>
            /\ deleteCalls[workers[w].m] = 1
            /\ <<"invalid", workers[w].m>> \in log
            /\ SurfacedFor(workers[w].m) = {}

C2_Witness ==
    \E w \in DOMAIN workers :
        /\ Finished(w) /\ workers[w].err = "invalid" /\ workers[w].del = "ok"
        /\ <<"invalid", workers[w].m>> \in log

\* C3: a worker whose handler returned another non-nil error never issues a
\* DeleteMessage: it goes from the handler's return straight to its end.
C3_TransientNeverDeleted ==
    \A w \in DOMAIN workers :
        workers[w].err = "other" =>
            /\ deleteCalls[workers[w].m] = 0
            /\ workers[w].pc \in {"returned", "done"}
            /\ workers[w].del = "none"

C3_Witness ==
    \E w \in DOMAIN workers :
        /\ Finished(w) /\ workers[w].err = "other"
        /\ <<"handler", workers[w].m>> \in log
        /\ deleteCalls[workers[w].m] = 0

\* C4: the active workers all belong to the batch dispatched last, and none
\* is active while Start is at the loop head or in a receive.
C4_OneBatchAtATime ==
    /\ \A w \in ActiveWorkers : workers[w].batch = batchNo
    /\ startPc \in {"idle", "top", "receive", "done"} => ActiveWorkers = {}

C4_Witness ==
    /\ batchNo = 2
    /\ startPc = "receive"
    /\ \A w \in DOMAIN workers : Finished(w)

\* C5: Stop() has not returned while a worker is in its handler or in its
\* DeleteMessage call.
C5_StopDrainsBatch ==
    stopPc = "done" => (ActiveWorkers = {} /\ startPc \notin {"spawn", "wait"})

C5_Witness ==
    /\ stopPc = "done"
    /\ stopAt.active # {}
    /\ \E w \in stopAt.active : workers[w].del = "ok"

C7_SpawnsKAndJoins ==
    /\ [](startPc = "wait" =>
            /\ Cardinality(WorkersOfBatch(batchNo)) = Len(messages)
            /\ {workers[w].m : w \in WorkersOfBatch(batchNo)}
                   = {messages[j] : j \in 1..Len(messages)})
    /\ [][(startPc = "wait" /\ startPc' = "top") =>
            /\ Cardinality(WorkersOfBatch(batchNo)) = Len(messages)
            /\ \A w \in WorkersOfBatch(batchNo) : Finished(w)]_vars

C7_Witness ==
    /\ startPc = "top"
    /\ Cardinality(WorkersOfBatch(batchNo)) = 2
    /\ \E w1, w2 \in WorkersOfBatch(batchNo) :
        /\ workers[w1].err = "other"
        /\ workers[w2].del = "fail"

\* C8: no receipt handle is deleted twice, and a DeleteMessage is issued for
\* a handle only after the handler invoked on its message has returned.
C8_DeleteOnceAfterHandler ==
    /\ \A h \in Handles : deleteCalls[h] <= 1
    /\ \A w \in DOMAIN workers :
        workers[w].pc = "handling" => deleteCalls[workers[w].m] = 0
    /\ \A h \in Handles :
        deleteCalls[h] > 0 =>
            \E w \in DOMAIN workers : workers[w].m = h /\ workers[w].err \in {"nil", "invalid"}

C8_Witness ==
    \E w \in DOMAIN workers :
        /\ Finished(w) /\ workers[w].del = "fail"
        /\ deleteCalls[workers[w].m] = 1

\* C9: Start returns only from the loop head and only when the context is
\* cancelled; once it has returned the context is cancelled.
C9_StartReturnsOnlyOnCancel ==
    /\ [](startPc = "done" => cancelled)
    /\ [][(startPc # "done" /\ startPc' = "done") => (startPc = "top" /\ cancelled)]_vars

C9_Witness ==
    /\ startPc = "done"
    /\ <<"poll", 0>> \in log
    /\ \E w \in DOMAIN workers : workers[w].err = "other"
    /\ \E w \in DOMAIN workers : workers[w].del = "fail"

\* C10: once the context is cancelled, a receive that returns no message
\* invokes no handler, the loop head then only leaves Start, without a
\* further receive or worker, and Start does return.
C10_CancelInReceiveExits ==
    /\ [][(cancelled /\ startPc = "receive" /\ startPc' = "top") =>
            UNCHANGED <<workers, handlerCalls, delivered>>]_vars
    /\ [][(cancelled /\ startPc = "top") =>
            /\ startPc' \in {"top", "done"}
            /\ UNCHANGED <<workers, handlerCalls, delivered>>]_vars
    /\ (cancelled /\ startPc = "receive") ~> (startPc = "done")

C10_Witness ==
    /\ stopAt.pc = "receive"
    /\ startPc = "done"
    /\ workers = <<>>
    /\ handlerCalls = [h \in Handles |-> 0]

DeleteIssued(w) == workers[w].pc = "deleting" \/ workers[w].del # "none"

\* The state of a worker's delivery: acknowledged when the transport has
\* deleted it, left in the queue when the worker ended without that.
DeliveryState(w) ==
    IF ~Finished(w) THEN "Handling"
    ELSE IF workers[w].ans = "ok" THEN "Acknowledged" ELSE "LeftInQueue"

\* C11: a handler that was invoked returns before anything else happens to
\* its worker, a worker whose handler returned nil or an InvalidMessageError
\* goes on to its DeleteMessage, the result of that call is the transport's
\* answer, and the workers that are active when the context is cancelled all
\* finish.
C11_CancelDoesNotInterrupt ==
    /\ [](\A w \in DOMAIN workers :
            Finished(w) =>
                IF workers[w].err \in {"nil", "invalid"}
                THEN /\ deleteCalls[workers[w].m] = 1
                     /\ workers[w].del \in {"ok", "fail"}
                     /\ workers[w].del = workers[w].ans
                ELSE /\ deleteCalls[workers[w].m] = 0
                     /\ workers[w].del = "none")
    /\ [][\A w \in DOMAIN workers :
            /\ workers[w].pc = "handling" =>
                   workers'[w].pc \in {"handling", "returned"}
            /\ (workers[w].pc = "returned" /\ workers[w].err \in {"nil", "invalid"}) =>
                   workers'[w].pc \in {"returned", "deleting"}]_vars
    /\ (cancelled /\ ActiveWorkers # {}) ~> (ActiveWorkers = {})

C11_Witness ==
    /\ cancelled
    /\ \E w \in stopAt.handling :
        /\ Finished(w)
        /\ workers[w].err = "invalid"
        /\ workers[w].del = "ok"

\* C12: the counter of s.Running is never negative, and no worker is active
\* while it is zero.
C12_CounterZeroMeansQuiet ==
    /\ Running >= 0
    /\ Running = 0 => ActiveWorkers = {}

C12_Witness ==
    /\ Running = 0
    /\ startPc = "done"
    /\ <<"poll", 0>> \in log
    /\ workers # <<>>

\* C13: once Stop() has signalled, Stop() returns, and by then a Start that
\* was running has returned.
C13_ShutdownTerminates ==
    (stopPc = "wait") ~> (stopPc = "done" /\ startPc \in {"idle", "done"})

C13_Witness ==
    /\ stopPc = "done"
    /\ startPc = "done"
    /\ stopAt.pc = "wait"
    /\ Cardinality(stopAt.handling) = 2

\* C14: a worker whose DeleteMessage failed has logged the error, has issued
\* that one DeleteMessage only and leaves its delivery in the queue; the
\* failing step changes no other worker and not the poll loop, and run still
\* returns to the head of the loop.
C14_DeleteFailureLeftInQueue ==
    /\ [](\A w \in DOMAIN workers :
            (Finished(w) /\ workers[w].del = "fail") =>
                /\ <<"delete", workers[w].m>> \in log
                /\ deleteCalls[workers[w].m] = 1
                /\ DeliveryState(w) = "LeftInQueue")
    /\ [][\A w \in DOMAIN workers :
            (workers[w].pc = "deleting" /\ workers'[w].del = "fail") =>
                /\ \A v \in DOMAIN workers \ {w} : workers'[v] = workers[v]
                /\ UNCHANGED <<startPc, Running, cancelled, messages>>]_vars
    /\ [][(startPc = "wait" /\ startPc' # "wait") => startPc' = "top"]_vars

C14_Witness ==
    /\ ~cancelled
    /\ startPc = "receive"
    /\ \E v, w \in WorkersOfBatch(batchNo) :
        /\ workers[v].del = "fail" /\ DeliveryState(v) = "LeftInQueue"
        /\ workers[w].del = "ok" /\ DeliveryState(w) = "Acknowledged"

\* The step in which a receive returns an error.
ReceiveFailed ==
    /\ startPc = "receive"
    /\ err' = "error"
    /\ UNCHANGED <<cancelled, stopPc>>
    /\ <<err, log, startPc>>' # <<err, log, startPc>>

\* C15: a receive that returns an error is logged, launches no worker and
\* leads to the head of the loop, from where, unless the context is
\* cancelled, the next receive is issued.
C15_ReceiveErrorRetries ==
    /\ [][ReceiveFailed =>
            /\ startPc' = "top"
            /\ <<"poll", 0>> \in log'
            /\ UNCHANGED <<workers, handlerCalls, Running, batchNo>>]_vars
    /\ [][(startPc = "top" /\ err = "error" /\ ~cancelled /\ ~cancelled') =>
            /\ startPc' \in {"top", "receive"}
            /\ UNCHANGED <<workers, handlerCalls, batchNo>>]_vars
    /\ (startPc = "top" /\ err = "error") ~> (startPc = "receive" \/ cancelled)

C15_Witness ==
    /\ ~cancelled
    /\ err = "error"
    /\ <<"poll", 0>> \in log
    /\ startPc = "receive"

\* C16: no more workers are active than the batch being dispatched has
\* messages, a batch has at most MaxBatch messages, and no worker is active
\* once run has returned.
C16_ActiveWithinBatch ==
    /\ Cardinality(ActiveWorkers) <= Len(messages)
    /\ Len(messages) <= MaxBatch
    /\ startPc \notin {"spawn", "wait"} => (ActiveWorkers = {} /\ messages = <<>>)

C16_Witness ==
    /\ startPc = "wait"
    /\ Len(messages) = 2
    /\ Cardinality(ActiveWorkers) = 2

C18_QuiescentAfterStop ==
    /\ [](stopPc = "done" =>
            /\ ActiveWorkers = {}
            /\ startPc \in {"idle", "top", "done"})
    /\ [][stopPc = "done" =>
            UNCHANGED <<workers, handlerCalls, deleteCalls, delivered, batchNo>>]_vars

C18_Witness ==
    /\ stopPc = "done"
    /\ stopAt.pc = "idle"
    /\ startPc = "done"
    /\ workers = <<>>

NotYetLaunched(h) ==
    /\ startPc = "spawn"
    /\ \E j \in i..Len(messages) : messages[j] = h

\* C19: every receipt handle that was received has had its handler invoked
\* once, by one worker, as soon as run's loop has passed it, and the
\* DeleteMessage calls for a handle are those of the workers handling it.
C19_EveryMessageHandledOnce ==
    \A h \in Handles :
        /\ handlerCalls[h] = IF h <= delivered /\ ~NotYetLaunched(h) THEN 1 ELSE 0
        /\ Cardinality({w \in DOMAIN workers : workers[w].m = h}) = handlerCalls[h]
        /\ deleteCalls[h] =
               Cardinality({w \in DOMAIN workers : workers[w].m = h /\ DeleteIssued(w)})

C19_Witness ==
    /\ stopAt.pc = "receive"
    /\ batchNo = stopAt.batches + 1
    /\ startPc = "done"
    /\ Cardinality(WorkersOfBatch(batchNo)) = 2
    /\ \A w \in WorkersOfBatch(batchNo) : workers[w].del = "ok"

\* C20: once the context is cancelled Start enters no receive, dispatches at
\* most the batch of the receive it was in, goes from a failed receive to
\* the head of the loop, and returns.
C20_PollingStopsAfterCancel ==
    /\ [][cancelled => ~(startPc # "receive" /\ startPc' = "receive")]_vars
    /\ [](stopPc # "idle" =>
            batchNo <= stopAt.batches + (IF stopAt.pc = "receive" THEN 1 ELSE 0))
    /\ [][(cancelled /\ ReceiveFailed) => startPc' = "top"]_vars
    /\ (cancelled /\ startPc # "idle") ~> (startPc = "done")

C20_Witness ==
    /\ stopAt.pc = "receive"
    /\ err = "error"
    /\ startPc = "done"
    /\ batchNo = stopAt.batches

====
